---- MODULE Spec2Model ----
(***************************************************************************)
(* Bollinger-band anomaly detection over per-user daily page counts, as    *)
(* written in time_series_anomaly_lesson.ipynb: one_user_df_prep,          *)
(* compute_pct_b, find_anomalies, the loop over all users and the two      *)
(* sorted views of its result.                                             *)
(*                                                                         *)
(* Numbers.  The notebook computes in floating point.  The model computes  *)
(* the same expressions in exact arithmetic: a rational is a record        *)
(* [n, d] in lowest terms with d > 0, NaN and the two infinities are       *)
(* distinguished values, and the square root taken by ewm(...).std() is    *)
(* kept symbolic (a band is a + k*sqrt(r)), so that every comparison the   *)
(* code makes is decided exactly.  Dates are day ordinals.                 *)
(***************************************************************************)
EXTENDS Integers, Sequences, FiniteSets, TLC

(***************************************************************************)
(* Bounds of the model.                                                    *)
(***************************************************************************)
MaxEvents == 2      \* rows of the log table
MaxDay    == 2      \* dates are 0..MaxDay
MaxSpan   == 3      \* span is drawn from 0..MaxSpan

(***************************************************************************)
(* Exact rational arithmetic standing for the float arithmetic of numpy.   *)
(***************************************************************************)
Abs(x) == IF x < 0 THEN -x ELSE x

RECURSIVE GCD(_, _)
GCD(a, b) == IF b = 0 THEN a ELSE GCD(b, a % b)

Rat(n, d) ==
    LET g == GCD(Abs(n), Abs(d))
        s == IF d < 0 THEN -1 ELSE 1
    IN  [n |-> s * (n \div g), d |-> s * (d \div g)]

RInt(k) == [n |-> k, d |-> 1]

RAdd(a, b) ==
    LET g == GCD(a.d, b.d)
    IN  Rat(a.n * (b.d \div g) + b.n * (a.d \div g), (a.d \div g) * b.d)

RNeg(a) == [n |-> -a.n, d |-> a.d]

RSub(a, b) == RAdd(a, RNeg(b))

RMul(a, b) ==
    LET g1 == GCD(Abs(a.n), b.d)
        g2 == GCD(Abs(b.n), a.d)
    IN  [n |-> (a.n \div g1) * (b.n \div g2), d |-> (a.d \div g2) * (b.d \div g1)]

RInv(a) == IF a.n < 0 THEN [n |-> -a.d, d |-> -a.n] ELSE [n |-> a.d, d |-> a.n]

RDiv(a, b) == RMul(a, RInv(b))

RSq(a) == [n |-> a.n * a.n, d |-> a.d * a.d]

RSign(a) == IF a.n > 0 THEN 1 ELSE IF a.n < 0 THEN -1 ELSE 0

\* a < b, decided on the continued-fraction expansions (no cross product).
RECURSIVE RLess(_, _)
RLess(a, b) ==
    LET fa == a.n \div a.d
        fb == b.n \div b.d
        ra == a.n % a.d
        rb == b.n % b.d
    IN  IF fa # fb THEN fa < fb
        ELSE IF rb = 0 THEN FALSE
        ELSE IF ra = 0 THEN TRUE
        ELSE RLess([n |-> b.d, d |-> rb], [n |-> a.d, d |-> ra])

Zero == RInt(0)
One  == RInt(1)
Half == [n |-> 1, d |-> 2]

NaN    == [special |-> "NaN"]
PosInf == [special |-> "inf"]
NegInf == [special |-> "-inf"]

(***************************************************************************)
(* pandas Series.ewm(span=span) with its defaults: adjust=True,          *)
(* ignore_na=False, min_periods=0, bias=False.  The series holds counts,   *)
(* so no observation is missing.                                           *)
(***************************************************************************)
\* ewm(span=...) refuses a span below 1 with a ValueError.
span_is_valid(sp) == sp >= 1

\* The span taken for the center of mass: alpha = 1 / (1 + span).
alpha_com(sp) == RDiv(One, RAdd(One, RInt(sp)))

\* com = (span - 1) / 2 and alpha = 1 / (1 + com)
alpha(sp) == RDiv(One, RAdd(One, Rat(sp - 1, 2)))

old_wt_factor(sp) == RSub(One, alpha(sp))

new_wt == One

\* The pass with adjust=False: weighted = (1 - alpha)*weighted + alpha*cur.
ewm_step_noadjust(st, cur, f) ==
    [weighted |-> RAdd(RMul(f, st.weighted), RMul(RSub(One, f), cur)),
     old_wt |-> One]

\* One pass of the loop of ewm(): the running weighted mean.
ewm_step(st, cur, f) ==
    LET old_wt == RMul(st.old_wt, f)
        weighted == IF st.weighted # cur
                    THEN RDiv(RAdd(RMul(old_wt, st.weighted), RMul(new_wt, cur)),
                              RAdd(old_wt, new_wt))
                    ELSE st.weighted
    IN  [weighted |-> weighted, old_wt |-> RAdd(old_wt, new_wt)]

RECURSIVE ewm_states(_, _)
ewm_states(vals, sp) ==
    IF Len(vals) = 0 THEN << >>
    ELSE IF Len(vals) = 1 THEN << [weighted |-> RInt(vals[1]), old_wt |-> One] >>
    ELSE LET prev == ewm_states(SubSeq(vals, 1, Len(vals) - 1), sp)
         IN  Append(prev, ewm_step(prev[Len(prev)], RInt(vals[Len(vals)]),
                                   old_wt_factor(sp)))

\* Series.ewm(span=span).mean()
ewm_mean(vals, sp) ==
    LET st == ewm_states(vals, sp)
    IN  [t \in 1..Len(vals) |-> st[t].weighted]

\* Series.ewm(span=span).var() with bias=False.  pandas defines it as the
\* weighted variance ewma(x^2) - ewma(x)^2 over the weights (1 - alpha)^i,
\* multiplied by the debiasing factor (sum w)^2 / ((sum w)^2 - sum w^2), and
\* NaN where that factor has no positive denominator.  With 1 - alpha = p/q
\* the weights are kept as integers: at every step the old weights are
\* multiplied by p and the new observation gets q^(t-1).
\*   sum_wt = sum w, sum_wt2 = sum w^2, sum_x = sum w*x, sum_x2 = sum w*x^2
RECURSIVE Pow(_, _)
Pow(b, e) == IF e = 0 THEN 1 ELSE b * Pow(b, e - 1)

ewmcov_step(st, cur, f, t) ==
    LET w == Pow(f.d, t - 1)
    IN  [sum_wt  |-> f.n * st.sum_wt + w,
         sum_wt2 |-> f.n * f.n * st.sum_wt2 + w * w,
         sum_x   |-> f.n * st.sum_x + w * cur,
         sum_x2  |-> f.n * st.sum_x2 + w * cur * cur]

RECURSIVE ewmcov_states(_, _)
ewmcov_states(vals, sp) ==
    IF Len(vals) = 0 THEN << >>
    ELSE LET prev == ewmcov_states(SubSeq(vals, 1, Len(vals) - 1), sp)
             first == [sum_wt |-> 0, sum_wt2 |-> 0, sum_x |-> 0, sum_x2 |-> 0]
         IN  Append(prev, ewmcov_step(IF Len(prev) = 0 THEN first ELSE prev[Len(prev)],
                                      vals[Len(vals)], old_wt_factor(sp), Len(vals)))

\* The variance with bias=True: no debiasing factor, defined at every index.
ewmcov_output_biased(st) ==
    Rat(st.sum_wt * st.sum_x2 - st.sum_x * st.sum_x, st.sum_wt * st.sum_wt)

ewmcov_output(st) ==
    LET numerator == st.sum_wt * st.sum_wt
        denominator == numerator - st.sum_wt2
    IN  IF denominator > 0
        THEN Rat(st.sum_wt * st.sum_x2 - st.sum_x * st.sum_x, denominator)
        ELSE NaN

\* .std() is the square root of this, which the model keeps under the root
\* sign (see Sqrt below).
ewm_var(vals, sp) ==
    LET st == ewmcov_states(vals, sp)
    IN  [t \in 1..Len(vals) |-> ewmcov_output(st[t])]

(***************************************************************************)
(* Band values.  A value a + k*sqrt(r), with a, k, r rational and r >= 0,  *)
(* is the record [a, k, r]; every band of one row shares the same r (the   *)
(* ewm variance of that row).  NaN propagates through every operation.     *)
(***************************************************************************)
\* sqrt(var): the result of .std()
Sqrt(var) == IF var = NaN THEN NaN ELSE [a |-> Zero, k |-> One, r |-> var]

\* s * w for a rational w (NaN * 0 is NaN)
SScale(s, w) ==
    IF s = NaN THEN NaN ELSE [a |-> RMul(s.a, w), k |-> RMul(s.k, w), r |-> s.r]

\* q + s and q - s for a rational q
RPlusS(q, s) == IF s = NaN THEN NaN ELSE [a |-> RAdd(q, s.a), k |-> s.k, r |-> s.r]

RMinusS(q, s) ==
    IF s = NaN THEN NaN ELSE [a |-> RSub(q, s.a), k |-> RNeg(s.k), r |-> s.r]

\* s1 - s2
SSub(s1, s2) ==
    IF s1 = NaN \/ s2 = NaN THEN NaN
    ELSE [a |-> RSub(s1.a, s2.a), k |-> RSub(s1.k, s2.k), r |-> s1.r]

\* The sign of a + k*sqrt(r).
SSign(s) ==
    LET sa == RSign(s.a)
        sk == IF RSign(s.r) = 0 THEN 0 ELSE RSign(s.k)
        a2 == RSq(s.a)
        k2r == RMul(RSq(s.k), s.r)
    IN  IF sk = 0 THEN sa
        ELSE IF sa = 0 \/ sa = sk THEN sk
        ELSE IF RLess(k2r, a2) THEN sa
        ELSE IF RLess(a2, k2r) THEN sk
        ELSE 0

\* A division that answers 0 for a zero denominator.
SDiv_guarded(s1, s2) ==
    IF s1 = NaN \/ s2 = NaN THEN NaN
    ELSE IF SSign(s2) = 0
    THEN [num |-> [a |-> Zero, k |-> Zero, r |-> s1.r], den |-> [a |-> One, k |-> Zero, r |-> s1.r]]
    ELSE [num |-> s1, den |-> s2]

\* s1 / s2 in IEEE arithmetic: x/0 is +-inf, 0/0 is NaN.  A finite quotient
\* is kept as the pair [num, den].
SDiv(s1, s2) ==
    IF s1 = NaN \/ s2 = NaN THEN NaN
    ELSE IF SSign(s2) = 0
    THEN (IF SSign(s1) = 0 THEN NaN ELSE IF SSign(s1) > 0 THEN PosInf ELSE NegInf)
    ELSE [num |-> s1, den |-> s2]

\* The sign of (p - c) for a quotient p and a rational c; comparisons with NaN
\* are False.
QCmp(p, c) == SSign(SSub(p.num, SScale(p.den, c))) * SSign(p.den)

QGreater(p, c) ==
    IF p = NaN THEN FALSE
    ELSE IF p = PosInf THEN TRUE
    ELSE IF p = NegInf THEN FALSE
    ELSE QCmp(p, c) > 0

QLess(p, c) ==
    IF p = NaN THEN FALSE
    ELSE IF p = PosInf THEN FALSE
    ELSE IF p = NegInf THEN TRUE
    ELSE QCmp(p, c) < 0

QEquals(p, c) == p \notin {NaN, PosInf, NegInf} /\ QCmp(p, c) = 0

\* A finite quotient (a + k*sqrt(r)) / (a' + k'*sqrt(r)) as one value
\* A + B*sqrt(r), by the conjugate of the denominator.
QValue(p) ==
    LET n == p.num
        d == p.den
        D == RSub(RSq(d.a), RMul(RSq(d.k), n.r))
    IN  IF RSign(D) # 0
        THEN [a |-> RDiv(RSub(RMul(n.a, d.a), RMul(RMul(n.k, d.k), n.r)), D),
              k |-> RDiv(RSub(RMul(n.k, d.a), RMul(n.a, d.k)), D),
              r |-> n.r]
        ELSE [a |-> RDiv(n.a, RMul(RInt(2), d.a)),
              k |-> RDiv(n.k, RMul(RInt(2), d.a)),
              r |-> n.r]

\* The sign of y*sqrt(r1) + z*sqrt(r2).
Sign2(y, r1, z, r2) ==
    LET sy == IF RSign(r1) = 0 THEN 0 ELSE RSign(y)
        sz == IF RSign(r2) = 0 THEN 0 ELSE RSign(z)
        y2 == RMul(RSq(y), r1)
        z2 == RMul(RSq(z), r2)
    IN  IF sz = 0 \/ sy = sz THEN sy
        ELSE IF sy = 0 THEN sz
        ELSE IF RLess(z2, y2) THEN sy
        ELSE IF RLess(y2, z2) THEN sz
        ELSE 0

\* The sign of x + y*sqrt(r1) + z*sqrt(r2).
Sign3(x, y, r1, z, r2) ==
    LET sx == RSign(x)
        ss == Sign2(y, r1, z, r2)
    IN  IF ss = 0 \/ sx = ss THEN sx
        ELSE IF sx = 0 THEN ss
        ELSE LET sq == SSign([a |-> RSub(RAdd(RMul(RSq(y), r1), RMul(RSq(z), r2)), RSq(x)),
                              k |-> RMul(RInt(2), RMul(y, z)),
                              r |-> RMul(r1, r2)])
             IN  IF sq > 0 THEN ss ELSE IF sq < 0 THEN sx ELSE 0

\* The sign of (p - q) for two pct_b values that are not NaN.
PctBCmp(p, q) ==
    IF p = q THEN 0
    ELSE IF p = PosInf \/ q = NegInf THEN 1
    ELSE IF p = NegInf \/ q = PosInf THEN -1
    ELSE LET v == QValue(p)
             w == QValue(q)
         IN  Sign3(RSub(v.a, w.a), v.k, v.r, RNeg(w.k), w.r)

(***************************************************************************)
(* The log table.  A row is [date, endpoint, user_id]; endpoint is a path  *)
(* or NULL.                                                                *)
(***************************************************************************)
Null == "NULL"

Users == {1, 2}

Endpoints == {"/", Null}

Rows == [date : 0..MaxDay, endpoint : Endpoints, user_id : Users]

\* The tables of at most n rows whose rows are in time order, as the rows of
\* a log are.
InTimeOrder(q) == \A j \in 1..(Len(q) - 1) : q[j].date <= q[j + 1].date

RECURSIVE Tables(_)
Tables(n) ==
    IF n = 0 THEN { << >> }
    ELSE LET shorter == Tables(n - 1)
         IN  shorter \cup
             { q \in { Append(r, x) : r \in { t \in shorter : Len(t) = n - 1 },
                                      x \in Rows } : InTimeOrder(q) }

\* A date value that pd.to_datetime cannot parse.
BadDate == -1

is_parseable(d) == d # BadDate

\* pd.to_datetime on a date column value
to_datetime(d) == d

\* pd.to_datetime(df.date) raises (errors='raise') when a value of the
\* column does not parse.
to_datetime_raises(rows) == \E m \in DOMAIN rows : ~is_parseable(rows[m].date)

Min(S) == CHOOSE x \in S : \A y \in S : x <= y
Max(S) == CHOOSE x \in S : \A y \in S : x >= y

\* A count per date that has rows (groupby) instead of per calendar day.
resample_count_groupby(rows) ==
    LET idx == { to_datetime(rows[m].date) : m \in DOMAIN rows }
        nth(j) == CHOOSE d \in idx : Cardinality({ e \in idx : e <= d }) = j
    IN  [j \in 1..Cardinality(idx) |->
            [date |-> nth(j),
             pages_one_user |->
                Cardinality({ m \in DOMAIN rows :
                                /\ to_datetime(rows[m].date) = nth(j)
                                /\ rows[m].endpoint # Null })]]

\* df['endpoint'].resample('d').count(): one row per calendar day from the
\* first to the last index value, holding the number of non-null endpoints.
resample_count(rows) ==
    IF Len(rows) = 0 THEN << >>
    ELSE LET idx == { to_datetime(rows[m].date) : m \in DOMAIN rows }
             lo == Min(idx)
             hi == Max(idx)
         IN  [j \in 1..(hi - lo + 1) |->
                [date |-> lo + j - 1,
                 pages_one_user |->
                    Cardinality({ m \in DOMAIN rows :
                                    /\ to_datetime(rows[m].date) = lo + j - 1
                                    /\ rows[m].endpoint # Null })]]

\* A prep that forgets the user filter.
IsUser_any(user, row) == TRUE

IsUser(user, row) == row.user_id = user

one_user_df_prep(frame, user) ==
    resample_count(SelectSeq(frame, LAMBDA row : IsUser(user, row)))

\* one_user_df_prep raises: the column it converts is the one of the user's
\* rows, the filter comes first.
one_user_df_prep_raises(frame, user) ==
    to_datetime_raises(SelectSeq(frame, LAMBDA row : IsUser(user, row)))

\* A row whose pct_b is measured from the midband: (value - lb)/(ub - midband).
band_row_halfwidth(day, midband, var, weight, user) ==
    LET stdev == Sqrt(var)
        ub == RPlusS(midband, SScale(stdev, weight))
        lb == RMinusS(midband, SScale(stdev, weight))
        value == RInt(day.pages_one_user)
    IN  [date |-> day.date, pages_one_user |-> day.pages_one_user,
         midband |-> midband, ub |-> ub, lb |-> lb,
         pct_b |-> SDiv(RMinusS(value, lb), SSub(ub, RPlusS(midband, SScale(stdev, Zero)))),
         user_id |-> user]

\* One row of my_df.
band_row(day, midband, var, weight, user) ==
    LET stdev == Sqrt(var)
        ub == RPlusS(midband, SScale(stdev, weight))
        lb == RMinusS(midband, SScale(stdev, weight))
        value == RInt(day.pages_one_user)
    IN  [date |-> day.date, pages_one_user |-> day.pages_one_user,
         midband |-> midband, ub |-> ub, lb |-> lb,
         pct_b |-> SDiv(RMinusS(value, lb), SSub(ub, lb)),
         user_id |-> user]

\* Bands of a day taken from the mean and the deviation of the days before
\* it (a shift by one) instead of the days up to it.
compute_pct_b_lagged(pages, sp, wt, user) ==
    LET vals == [t \in 1..Len(pages) |-> pages[t].pages_one_user]
        midband == ewm_mean(vals, sp)
        var == ewm_var(vals, sp)
    IN  [t \in 1..Len(pages) |->
            IF t = 1 THEN band_row(pages[t], midband[t], NaN, wt, user)
            ELSE band_row(pages[t], midband[t - 1], var[t - 1], wt, user)]

compute_pct_b(pages, sp, wt, user) ==
    LET vals == [t \in 1..Len(pages) |-> pages[t].pages_one_user]
        midband == ewm_mean(vals, sp)
        var == ewm_var(vals, sp)
    IN  [t \in 1..Len(pages) |-> band_row(pages[t], midband[t], var[t], wt, user)]

\* A filter with the threshold on the midband instead of the upper band.
IsAnomaly_midband(row) == QGreater(row.pct_b, Half)

\* my_df[my_df.pct_b > 1]
IsAnomaly(row) == QGreater(row.pct_b, One)

upper_filter(table) == SelectSeq(table, IsAnomaly)

\* The locals of one call of find_anomalies and its return value.
find_anomalies_call(frame, user, sp, wt) ==
    LET pages == one_user_df_prep(frame, user)
        table == compute_pct_b(pages, sp, wt, user)
    IN  [pages_one_user |-> pages, my_df |-> table, ret |-> upper_filter(table)]

find_anomalies(frame, user, sp, wt) == find_anomalies_call(frame, user, sp, wt).ret

\* The distinct users in increasing order (np.unique) instead of in order of
\* first appearance.
unique_sorted(ids) ==
    LET S == { ids[j] : j \in DOMAIN ids }
    IN  [k \in 1..Cardinality(S) |->
            CHOOSE x \in S : Cardinality({ y \in S : y <= x }) = k]

\* list(df.user_id.unique()): the users in order of first appearance
unique(ids) ==
    LET firsts == { j \in DOMAIN ids : \A m \in 1..(j - 1) : ids[m] # ids[j] }
    IN  [k \in 1..Cardinality(firsts) |->
            ids[CHOOSE j \in firsts : Cardinality({ m \in firsts : m <= j }) = k]]

\* row x may stand right before row y in a frame sorted by pct_b with
\* ascending=False: NaN goes last (na_position='last').
ByPctB(x, y) ==
    \/ y.pct_b = NaN
    \/ x.pct_b # NaN /\ PctBCmp(x.pct_b, y.pct_b) >= 0

\* the same for by='pages_one_user', ascending=False
ByPages(x, y) == x.pages_one_user >= y.pages_one_user

Orderings(n) ==
    { f \in [1..n -> 1..n] : \A j \in 1..n : \A m \in 1..n : f[j] = f[m] => j = m }

\* frame.sort_values(by=..., ascending=False): the default kind is quicksort,
\* which is not stable, so rows with equal keys may come out in any order.
MayPrecede(by, x, y) == IF by = "pct_b" THEN ByPctB(x, y) ELSE ByPages(x, y)

sort_values(frame, by) ==
    { g \in { [j \in 1..Len(frame) |-> frame[f[j]]] : f \in Orderings(Len(frame)) } :
         \A j \in 1..(Len(frame) - 1) : MayPrecede(by, g[j], g[j + 1]) }

(***************************************************************************)
(* Inputs.                                                                 *)
(***************************************************************************)
Spans == 0..MaxSpan

Weights == { Zero, Half, RInt(3) }

RECURSIVE Repeat(_, _)
Repeat(row, n) == IF n = 0 THEN << >> ELSE Append(Repeat(row, n - 1), row)

\* The rows of one user whose daily counts are the given series.
RECURSIVE RowsOfCounts(_, _)
RowsOfCounts(counts, user) ==
    IF Len(counts) = 0 THEN << >>
    ELSE RowsOfCounts(SubSeq(counts, 1, Len(counts) - 1), user)
         \o Repeat([date |-> Len(counts) - 1, endpoint |-> "/", user_id |-> user],
                   counts[Len(counts)])

\* A spike after a quiet week, a day that lands on its own midband, and a
\* constant series.
ScenarioCounts == << 2, 3, 2, 4, 3, 2, 3, 50 >>

MidbandCounts == << 3, 0, 1 >>

ConstantCounts == << 5, 5, 5, 5, 5 >>

\* Two users with interleaved rows, daily counts 1,0,2 and 1,0,3.
TwoUserTable ==
    << [date |-> 0, endpoint |-> "/", user_id |-> 2],
       [date |-> 0, endpoint |-> "/", user_id |-> 1],
       [date |-> 2, endpoint |-> "/", user_id |-> 1],
       [date |-> 2, endpoint |-> "/", user_id |-> 2],
       [date |-> 2, endpoint |-> "/", user_id |-> 1],
       [date |-> 2, endpoint |-> "/", user_id |-> 2],
       [date |-> 2, endpoint |-> "/", user_id |-> 2] >>

\* Two users again, the user who appears first with the smaller counts:
\* daily counts 1,0,2 for user 2 and 1,0,3 for user 1.
SmallerFirstTable ==
    << [date |-> 0, endpoint |-> "/", user_id |-> 2],
       [date |-> 0, endpoint |-> "/", user_id |-> 1],
       [date |-> 2, endpoint |-> "/", user_id |-> 1],
       [date |-> 2, endpoint |-> "/", user_id |-> 2],
       [date |-> 2, endpoint |-> "/", user_id |-> 1],
       [date |-> 2, endpoint |-> "/", user_id |-> 2],
       [date |-> 2, endpoint |-> "/", user_id |-> 1] >>

\* The configuration of the scenario: span and K.
ScenarioConfig == [span |-> 3, weight |-> RInt(3)]

ScenarioTable == RowsOfCounts(ScenarioCounts, 1)

LongTables == { RowsOfCounts(MidbandCounts, 1), RowsOfCounts(ConstantCounts, 1),
                TwoUserTable, SmallerFirstTable }

\* The configuration of the single-user cell, and a K just above
\* sqrt((span + 1) / 2) for the span of the scenario.
SingleUserConfig == [span |-> 30, weight |-> RInt(6)]

TightConfig == [span |-> 3, weight |-> Rat(3, 2)]

\* One user with three days of counts.
ThreeDayTables ==
    { RowsOfCounts(<< c1, c2, c3 >>, 1) : c1 \in 1..2, c2 \in 0..2, c3 \in 1..2 }

InsertAt(q, j, row) == SubSeq(q, 1, j - 1) \o << row >> \o SubSeq(q, j, Len(q))

\* The two-user table with one more row, of either user and anywhere in the
\* table, whose date does not parse.
MalformedTables ==
    { InsertAt(TwoUserTable, j, [date |-> BadDate, endpoint |-> "/", user_id |-> usr]) :
         j \in 1..(Len(TwoUserTable) + 1), usr \in Users }

(***************************************************************************)
(* The loop over all users.                                                *)
(***************************************************************************)
VARIABLES df, span, weight, pc, users, next_user, u, user_df, anomalies,
          pages_one_user, my_df, sorted_anomalies

vars == << df, span, weight, pc, users, next_user, u, user_df, anomalies,
           pages_one_user, my_df, sorted_anomalies >>

NoUser == 0

Init ==
    /\ \/ /\ df \in Tables(MaxEvents)
          /\ span \in Spans
          /\ weight \in Weights
       \/ /\ df \in LongTables \cup MalformedTables
          /\ span = ScenarioConfig.span
          /\ weight \in Weights
       \/ /\ df = ScenarioTable
          /\ span = ScenarioConfig.span
          /\ weight \in { Zero, ScenarioConfig.weight, TightConfig.weight }
       \/ /\ df \in ThreeDayTables
          /\ \E config \in { SingleUserConfig, TightConfig } :
                span = config.span /\ weight = config.weight
    /\ pc = "start"
    /\ users = << >>
    /\ next_user = 1
    /\ u = NoUser
    /\ user_df = << >>
    /\ anomalies = << >>
    /\ pages_one_user = << >>
    /\ my_df = << >>
    /\ sorted_anomalies = << >>

\* anomalies = pd.DataFrame(); for u in list(df.user_id.unique()):
LoopStart ==
    /\ pc = "start"
    /\ anomalies' = << >>
    /\ users' = unique([j \in DOMAIN df |-> df[j].user_id])
    /\ next_user' = 1
    /\ pc' = "loop"
    /\ UNCHANGED << df, span, weight, u, user_df, pages_one_user, my_df,
                    sorted_anomalies >>

\* user_df = find_anomalies(df, u, span, weight)
\* anomalies = pd.concat([anomalies, user_df], axis=0)
LoopBody ==
    /\ pc = "loop"
    /\ next_user <= Len(users)
    /\ ~one_user_df_prep_raises(df, users[next_user])
    /\ span_is_valid(span)
    /\ u' = users[next_user]
    /\ LET call == find_anomalies_call(df, users[next_user], span, weight)
       IN  /\ pages_one_user' = call.pages_one_user
           /\ my_df' = call.my_df
           /\ user_df' = call.ret
           /\ anomalies' = anomalies \o call.ret
    /\ next_user' = next_user + 1
    /\ UNCHANGED << df, span, weight, pc, users, sorted_anomalies >>

\* The same iteration when ewm(span=span) raises ValueError: one_user_df_prep
\* has returned, compute_pct_b does not, and the exception ends the loop.
LoopBodyRaises ==
    /\ pc = "loop"
    /\ next_user <= Len(users)
    /\ ~one_user_df_prep_raises(df, users[next_user])
    /\ ~span_is_valid(span)
    /\ u' = users[next_user]
    /\ pages_one_user' = one_user_df_prep(df, users[next_user])
    /\ pc' = "raised"
    /\ UNCHANGED << df, span, weight, users, next_user, user_df, anomalies, my_df,
                    sorted_anomalies >>

\* The same iteration when pd.to_datetime raises in one_user_df_prep: nothing
\* is assigned but the loop variable, and the exception ends the loop.
LoopBodyPrepRaises ==
    /\ pc = "loop"
    /\ next_user <= Len(users)
    /\ one_user_df_prep_raises(df, users[next_user])
    /\ u' = users[next_user]
    /\ pc' = "prep_raised"
    /\ UNCHANGED << df, span, weight, users, next_user, user_df, anomalies,
                    pages_one_user, my_df, sorted_anomalies >>

LoopExit ==
    /\ pc = "loop"
    /\ next_user > Len(users)
    /\ pc' = "done"
    /\ UNCHANGED << df, span, weight, users, next_user, u, user_df, anomalies,
                    pages_one_user, my_df, sorted_anomalies >>

\* anomalies.sort_values(by='pct_b', ascending=False): the cell shows a new
\* frame, anomalies itself is not assigned.
SortByPctB ==
    /\ pc = "done"
    /\ sorted_anomalies' \in sort_values(anomalies, "pct_b")
    /\ pc' = "sorted_by_pct_b"
    /\ UNCHANGED << df, span, weight, users, next_user, u, user_df, anomalies,
                    pages_one_user, my_df >>

\* anomalies.sort_values(by='pages_one_user', ascending=False)
SortByPages ==
    /\ pc = "sorted_by_pct_b"
    /\ sorted_anomalies' \in sort_values(anomalies, "pages_one_user")
    /\ pc' = "sorted_by_pages_one_user"
    /\ UNCHANGED << df, span, weight, users, next_user, u, user_df, anomalies,
                    pages_one_user, my_df >>

Next ==
    \/ LoopStart
    \/ LoopBody
    \/ LoopBodyRaises
    \/ LoopBodyPrepRaises
    \/ LoopExit
    \/ SortByPctB
    \/ SortByPages

Spec == Init /\ [][Next]_vars

(***************************************************************************)
(* Vocabulary of the properties.                                           *)
(***************************************************************************)
\* find_anomalies has returned for user u: pages_one_user, my_df and user_df
\* are the series, the band table and the result of that call.
Computed == pc \in {"loop", "done"} /\ u # NoUser

\* one_user_df_prep has returned for user u.
Prepared == u # NoUser /\ pc # "prep_raised"

Series == [t \in 1..Len(pages_one_user) |-> pages_one_user[t].pages_one_user]

Returned(t) == \E k \in DOMAIN user_df : user_df[k] = my_df[t]

Undefined(x) == x = NaN

\* The ewm variance of the current series at index t (stdev is its root).
Variance(t) == ewm_var(Series, span)[t]

(***************************************************************************)
(* C1.  Daily counts 2,3,2,4,3,2,3,50 with span 3 and K 3.                 *)
(***************************************************************************)
C1_Case ==
    /\ Computed
    /\ Series = ScenarioCounts
    /\ span = ScenarioConfig.span
    /\ weight = ScenarioConfig.weight

\* C1 as stated: the first seven records have pct_b <= 1 or undefined, the
\* eighth record (count 50) has pct_b > 1, and the returned anomaly set is
\* exactly the eighth record.
C1_Original ==
    C1_Case =>
        /\ \A t \in 1..7 : ~QGreater(my_df[t].pct_b, One)
        /\ QGreater(my_df[8].pct_b, One)
        /\ user_df = << my_df[8] >>

\* C1 as amended: all eight records have pct_b <= 1 or undefined -- the first
\* is undefined and the eighth (count 50) lies strictly between 1/2 and
\* 3/4 -- so the returned anomaly set is empty.
C1_Amended ==
    C1_Case =>
        /\ Len(my_df) = 8
        /\ Undefined(my_df[1].pct_b)
        /\ \A t \in 1..8 : ~QGreater(my_df[t].pct_b, One)
        /\ QGreater(my_df[8].pct_b, Half)
        /\ QLess(my_df[8].pct_b, Rat(3, 4))
        /\ user_df = << >>

C1_Witness == C1_Case /\ my_df[8].pages_one_user = 50

(***************************************************************************)
(* C3.  one_user_df_prep gives a contiguous daily series of counts.        *)
(***************************************************************************)
OwnRows(user) == { j \in DOMAIN df : df[j].user_id = user }

OwnDates(user) == { df[j].date : j \in OwnRows(user) }

RECURSIVE SumCounts(_)
SumCounts(q) == IF Len(q) = 0 THEN 0
                ELSE q[Len(q)].pages_one_user + SumCounts(SubSeq(q, 1, Len(q) - 1))

\* One row for every calendar day from the earliest to the latest date of
\* the user's rows, in increasing order, consecutive dates one day apart.
C3_Contiguous ==
    /\ Len(pages_one_user) = Max(OwnDates(u)) - Min(OwnDates(u)) + 1
    /\ pages_one_user[1].date = Min(OwnDates(u))
    /\ \A t \in 1..(Len(pages_one_user) - 1) :
          pages_one_user[t + 1].date = pages_one_user[t].date + 1

\* C3 as stated: the series is contiguous, each count is the number of the
\* user's events on that day (0 for a day without events), and the counts
\* sum to the number of the user's events.
C3_Original ==
    Prepared =>
        /\ C3_Contiguous
        /\ \A t \in DOMAIN pages_one_user :
              pages_one_user[t].pages_one_user =
                 Cardinality({ j \in OwnRows(u) : df[j].date = pages_one_user[t].date })
        /\ SumCounts(pages_one_user) = Cardinality(OwnRows(u))

\* C3 as amended: the series is contiguous, each count is the number of the
\* user's events on that day whose endpoint is not NULL (0 for a day with no
\* such event), and the counts sum to the number of the user's events whose
\* endpoint is not NULL.
C3_Amended ==
    Prepared =>
        /\ C3_Contiguous
        /\ \A t \in DOMAIN pages_one_user :
              pages_one_user[t].pages_one_user =
                 Cardinality({ j \in OwnRows(u) : /\ df[j].date = pages_one_user[t].date
                                                  /\ df[j].endpoint # Null })
        /\ SumCounts(pages_one_user) =
              Cardinality({ j \in OwnRows(u) : df[j].endpoint # Null })

\* A gap day: the user has rows before and after a day without any row.
C3_Witness ==
    /\ Prepared
    /\ \E t \in 2..(Len(pages_one_user) - 1) :
          /\ pages_one_user[t].pages_one_user = 0
          /\ pages_one_user[t].date \notin OwnDates(u)
          /\ pages_one_user[t - 1].pages_one_user > 0
          /\ pages_one_user[t + 1].pages_one_user > 0

(***************************************************************************)
(* C4.  Where the weighted standard deviation is undefined.                *)
(***************************************************************************)
\* The bands are midband +- stdev*weight, so a band is NaN exactly where
\* stdev is.
StdevUndefined(t) == Undefined(my_df[t].ub) /\ Undefined(Variance(t))

C4_FirstRecord ==
    Len(my_df) > 0 =>
        /\ Undefined(my_df[1].ub)
        /\ Undefined(my_df[1].lb)
        /\ Undefined(my_df[1].pct_b)
        /\ ~Returned(1)

\* C4 as stated: for every span >= 1 stdev is undefined at the first index and
\* at no other; bands and pct_b of the first record are undefined and the
\* first record is never returned.
C4_Original ==
    Computed =>
        /\ \A t \in DOMAIN my_df : StdevUndefined(t) <=> t = 1
        /\ C4_FirstRecord

\* C4 as amended: for every span > 1 stdev is undefined at the first index and
\* at no other; for span = 1 it is undefined at every index; for every span
\* the bands and pct_b of the first record are undefined and the first record
\* is never returned.
C4_Amended ==
    Computed =>
        /\ span > 1 => \A t \in DOMAIN my_df : StdevUndefined(t) <=> t = 1
        /\ span = 1 => \A t \in DOMAIN my_df : StdevUndefined(t)
        /\ \A t \in DOMAIN my_df : Undefined(my_df[t].ub) <=> Undefined(Variance(t))
        /\ C4_FirstRecord

C4_Witness == Computed /\ span > 1 /\ Len(my_df) >= 3 /\ ~Undefined(my_df[3].ub)

(***************************************************************************)
(* C5.  The midband is the normalized full-history weighted sum.           *)
(***************************************************************************)
RECURSIVE RPow(_, _)
RPow(a, e) == IF e = 0 THEN One ELSE RMul(a, RPow(a, e - 1))

\* sum over k = from..t-1 of decay^k * vals[t - k]
RECURSIVE WeightedSum(_, _, _, _)
WeightedSum(vals, decay, t, from) ==
    IF from >= t THEN Zero
    ELSE RAdd(RMul(RPow(decay, from), RInt(vals[t - from])),
              WeightedSum(vals, decay, t, from + 1))

FullHistoryMean(vals, sp, t) ==
    LET decay == RSub(One, Rat(2, sp + 1))
    IN  RDiv(WeightedSum(vals, decay, t, 0),
             WeightedSum([k \in 1..t |-> 1], decay, t, 0))

\* C5: at every index, also before span observations exist, the midband is
\* defined and equals (sum of (1-a)^k * x_(t-k)) / (sum of (1-a)^k) over the
\* whole history, a = 2/(span+1); the first midband is the first value.
C5_Midband ==
    Computed =>
        /\ \A t \in DOMAIN my_df :
              /\ ~Undefined(my_df[t].midband)
              /\ my_df[t].midband = FullHistoryMean(Series, span, t)
        /\ Len(my_df) > 0 => my_df[1].midband = RInt(Series[1])

\* Fewer observations than the span, and a midband that is not an observation.
C5_Witness ==
    /\ Computed
    /\ Len(my_df) = 2
    /\ span > 2
    /\ my_df[2].midband # RInt(Series[2])
    /\ my_df[2].midband # RInt(Series[1])

(***************************************************************************)
(* C2.  What find_anomalies returns.                                       *)
(***************************************************************************)
Value(t) == RInt(my_df[t].pages_one_user)

BandsDefined(t) == ~Undefined(my_df[t].ub) /\ ~Undefined(my_df[t].lb)

\* The sign of upper - lower.
Width(t) == SSign(SSub(my_df[t].ub, my_df[t].lb))

AboveUpperBand(t) ==
    /\ BandsDefined(t)
    /\ Width(t) # 0
    /\ SSign(RMinusS(Value(t), my_df[t].ub)) > 0

\* C2 as stated: the returned records are exactly the records whose pct_b is
\* defined and above 1, which are exactly the records whose value is strictly
\* above a defined upper band of non-zero width; no record with pct_b
\* undefined, <= 1 or < 0 is returned.
C2_Original ==
    Computed =>
        \A t \in DOMAIN my_df :
            /\ Returned(t) <=> QGreater(my_df[t].pct_b, One)
            /\ Returned(t) <=> AboveUpperBand(t)
            /\ Returned(t) => /\ ~Undefined(my_df[t].pct_b)
                              /\ ~QLess(my_df[t].pct_b, Zero)

(***************************************************************************)
(* C6.  A value on the midband.                                            *)
(***************************************************************************)
OnMidband(t) == Value(t) = my_df[t].midband

ConstantSeries == Len(Series) >= 2 /\ \A t \in DOMAIN Series : Series[t] = Series[1]

C7_NothingReported ==
    /\ \A t \in DOMAIN my_df :
          /\ my_df[t].midband = RInt(Series[1])
          /\ Undefined(my_df[t].pct_b)
    /\ user_df = << >>

\* C7 as stated: for any span and K, every mean of a constant series is the
\* constant, every record after the first has stdev = 0 and upper = lower,
\* every pct_b is undefined and nothing is returned.  Stated here for K > 0
\* only, where it already fails.
C7_Original ==
    (Computed /\ ConstantSeries /\ RSign(weight) > 0) =>
        /\ C7_NothingReported
        /\ \A t \in 2..Len(my_df) :
              Variance(t) = Zero /\ BandsDefined(t) /\ Width(t) = 0

\* C7 as amended: for any span and K, every mean of a constant series is the
\* constant, every pct_b is undefined and nothing is returned; for span > 1
\* every record after the first has stdev = 0 and upper = lower, and for
\* span = 1 stdev and the bands are undefined at every record.
C7_Amended ==
    (Computed /\ ConstantSeries) =>
        /\ C7_NothingReported
        /\ span > 1 => \A t \in 2..Len(my_df) :
                          Variance(t) = Zero /\ BandsDefined(t) /\ Width(t) = 0
        /\ span = 1 => \A t \in DOMAIN my_df :
                          Undefined(Variance(t)) /\ ~BandsDefined(t)

C7_Witness ==
    /\ Computed
    /\ Series = ConstantCounts
    /\ RSign(weight) > 0
    /\ Width(5) = 0

(***************************************************************************)
(* C8.  The bands around the mean.                                         *)
(***************************************************************************)
Plain(q, t) == [a |-> q, k |-> Zero, r |-> Variance(t)]

UpperGap(t) == SSub(my_df[t].ub, Plain(my_df[t].midband, t))

LowerGap(t) == SSub(Plain(my_df[t].midband, t), my_df[t].lb)

\* C8 as stated: for every record with defined bands and every K >= 0,
\* upper >= mean >= lower, upper - mean = mean - lower = K * stdev, and
\* upper = mean or mean = lower only when stdev = 0.
C8_Original ==
    (Computed /\ RSign(weight) >= 0) =>
        \A t \in DOMAIN my_df :
            BandsDefined(t) =>
                /\ SSign(UpperGap(t)) >= 0
                /\ SSign(LowerGap(t)) >= 0
                /\ UpperGap(t) = SScale(Sqrt(Variance(t)), weight)
                /\ LowerGap(t) = SScale(Sqrt(Variance(t)), weight)
                /\ (SSign(UpperGap(t)) = 0 \/ SSign(LowerGap(t)) = 0)
                      => Variance(t) = Zero

(***************************************************************************)
(* C9.  Entity isolation.                                                  *)
(***************************************************************************)
\* The table with the rows of every other user removed.
OwnTable(user) == SelectSeq(df, LAMBDA row : row.user_id = user)

BlockOf(user) == SelectSeq(anomalies, LAMBDA row : row.user_id = user)

\* C9: what is computed for a user in the loop over the whole table is what
\* is computed from that user's own rows alone, so two tables that agree on
\* the user's rows give the user the same series, band records and anomaly
\* records, wherever the user comes in the loop; at the end the user's block
\* of the collection is that result.
C9_Isolation ==
    /\ Prepared => pages_one_user = one_user_df_prep(OwnTable(u), u)
    /\ Computed =>
          /\ my_df = find_anomalies_call(OwnTable(u), u, span, weight).my_df
          /\ user_df = find_anomalies(OwnTable(u), u, span, weight)
    /\ pc = "done" =>
          \A k \in DOMAIN users :
              BlockOf(users[k]) = find_anomalies(OwnTable(users[k]), users[k], span, weight)

\* Two users with overlapping dates, each with an anomaly record.
C9_Witness ==
    /\ pc = "done"
    /\ RSign(weight) > 0
    /\ Len(users) = 2
    /\ BlockOf(1) # << >>
    /\ BlockOf(2) # << >>
    /\ Len(OwnTable(1)) # Len(df)

(***************************************************************************)
(* C10.  Configuration errors.                                             *)
(***************************************************************************)
BadConfig == span <= 0 \/ RSign(weight) <= 0

\* C10 as stated: with span <= 0 or K <= 0 no user's daily counts, bands or
\* anomaly records are computed and nothing is appended to anomalies.
C10_Original ==
    BadConfig =>
        /\ u = NoUser
        /\ pages_one_user = << >>
        /\ my_df = << >>
        /\ user_df = << >>
        /\ anomalies = << >>

(***************************************************************************)
(* C11.  A date that does not parse.                                       *)
(***************************************************************************)
HasMalformed == \E j \in DOMAIN df : ~is_parseable(df[j].date)

Offending(user) == \E j \in OwnRows(user) : ~is_parseable(df[j].date)

\* The table without the rows whose date does not parse.
CleanTable == SelectSeq(df, LAMBDA row : is_parseable(row.date))

\* The run of the loop has ended, by falling out of the loop or by an
\* exception.
LoopEnded == pc \notin {"start", "loop"}

\* C11 as stated: when an event has an unparseable date (and the
\* configuration is valid) the loop still runs to completion, and the
\* collection holds for every other user exactly the records of a run on
\* the table without the offending event.
C11_Original ==
    (HasMalformed /\ span_is_valid(span) /\ LoopEnded) =>
        /\ pc \notin {"raised", "prep_raised"}
        /\ \A k \in DOMAIN users :
              ~Offending(users[k]) =>
                  BlockOf(users[k]) = find_anomalies(CleanTable, users[k], span, weight)

(***************************************************************************)
(* C12.  The accumulator of the loop and the sorted views.                 *)
(***************************************************************************)
Appeared == { df[j].user_id : j \in DOMAIN df }

FirstRow(user) == Min({ j \in DOMAIN df : df[j].user_id = user })

\* The k-th distinct user in order of first appearance in the table.
Entity(k) ==
    CHOOSE user \in Appeared :
        Cardinality({ v \in Appeared : FirstRow(v) <= FirstRow(user) }) = k

RECURSIVE ResultsOfFirst(_)
ResultsOfFirst(k) ==
    IF k = 0 THEN << >>
    ELSE ResultsOfFirst(k - 1) \o find_anomalies(df, Entity(k), span, weight)

\* The iterations of the loop that have completed.
Iterations == next_user - 1

Completed == pc \in {"done", "sorted_by_pct_b", "sorted_by_pages_one_user"}

Occurrences(q, x) == Cardinality({ j \in DOMAIN q : q[j] = x })

SameMultiset(q1, q2) ==
    /\ Len(q1) = Len(q2)
    /\ \A j \in DOMAIN q1 : Occurrences(q1, q1[j]) = Occurrences(q2, q1[j])

\* C12: the accumulator is empty before the loop; after k iterations it is
\* the concatenation of the find_anomalies results of the first k distinct
\* users in order of first appearance, so the records of one user are one
\* block in increasing date order and the blocks follow the order of first
\* appearance; when the loop has completed every user of the table has been
\* processed exactly once; a sort by pct_b or by pages_one_user shows a
\* permutation of the same multiset of records and leaves the accumulator
\* as it was.
C12_Accumulator ==
    /\ pc = "start" => anomalies = << >>
    /\ pc # "start" =>
          /\ \A k \in 1..Iterations : users[k] = Entity(k)
          /\ anomalies = ResultsOfFirst(Iterations)
          /\ \A j \in DOMAIN anomalies : \A m \in DOMAIN anomalies :
                j < m =>
                   /\ FirstRow(anomalies[j].user_id) <= FirstRow(anomalies[m].user_id)
                   /\ anomalies[j].user_id = anomalies[m].user_id
                         => anomalies[j].date < anomalies[m].date
    /\ Completed =>
          /\ Iterations = Cardinality(Appeared)
          /\ \A user \in Appeared :
                Cardinality({ k \in 1..Iterations : users[k] = user }) = 1
    /\ pc \in {"sorted_by_pct_b", "sorted_by_pages_one_user"} =>
          SameMultiset(sorted_anomalies, anomalies)

\* The user of the second block appears first in the table, both users have
\* records, and the sort has moved records.
C12_Witness ==
    /\ pc = "sorted_by_pages_one_user"
    /\ RSign(weight) > 0
    /\ users = << 2, 1 >>
    /\ BlockOf(1) # << >>
    /\ BlockOf(2) # << >>
    /\ sorted_anomalies # anomalies

(***************************************************************************)
(* C13.  The midband and the one-step recurrence of the lesson.            *)
(***************************************************************************)
\* The smoothing factor of the lesson, a / (1 + M) with a = 2.
Smoothing(sp) == Rat(2, 1 + sp)

\* EMA_t = x_t * (2/(1+M)) + EMA_(t-1) * (1 - 2/(1+M)), the first EMA being
\* the first value.
RECURSIVE LessonEMA(_, _, _)
LessonEMA(vals, sp, t) ==
    IF t = 1 THEN RInt(vals[1])
    ELSE RAdd(RMul(RInt(vals[t]), Smoothing(sp)),
              RMul(LessonEMA(vals, sp, t - 1), RSub(One, Smoothing(sp))))

\* The factor of the t-th value (t counted from 1) when the weights are
\* normalized over the t values seen: a / (1 - (1 - a)^t).
Gain(sp, t) ==
    RDiv(Smoothing(sp), RSub(One, RPow(RSub(One, Smoothing(sp)), t)))

RECURSIVE AdjustedEMA(_, _, _)
AdjustedEMA(vals, sp, t) ==
    IF t = 1 THEN RInt(vals[1])
    ELSE RAdd(RMul(RInt(vals[t]), Gain(sp, t)),
              RMul(AdjustedEMA(vals, sp, t - 1), RSub(One, Gain(sp, t))))

LargeWeight ==
    /\ span > 1
    /\ RSign(weight) > 0
    /\ ~RLess(RSq(weight), Rat(span + 1, 2))

\* C14: with span > 1, K > 0 and K*K >= (span + 1)/2 no record of any series
\* has pct_b > 1, find_anomalies returns nothing and nothing is ever added
\* to the collection; so it is for span 30 with K 6 and for span 3 with K 3.
C14_NoAnomalies ==
    LargeWeight =>
        /\ Computed =>
              /\ \A t \in DOMAIN my_df : ~QGreater(my_df[t].pct_b, One)
              /\ user_df = << >>
        /\ anomalies = << >>

\* With span 30 and K 6, a day of a three-day series above its midband,
\* its pct_b defined.
C14_Witness ==
    /\ Computed
    /\ LargeWeight
    /\ span = SingleUserConfig.span
    /\ weight = SingleUserConfig.weight
    /\ Len(my_df) = 3
    /\ QGreater(my_df[3].pct_b, Half)

====
